---- MODULE Spec2Model ----
(***************************************************************************)
(* A model of the MetroHash Python wrapper (src/src/metrohash.pyx): the    *)
(* one-shot functions metrohash64 / metrohash128 and the incremental       *)
(* classes MetroHash64 / MetroHash128 around the native primitive.         *)
(*                                                                         *)
(* Representation.  A C byte buffer is a sequence of bytes (0..255).  A    *)
(* uint64 is a sequence of 8 bytes, least significant first.  A Python     *)
(* integer is a sequence of base-256 limbs, least significant first, with  *)
(* no leading (high) zero limb, so that 64- and 128-bit values keep their  *)
(* exact width.  A Python object passed as `data` is a record              *)
(* [type, val]: val holds code points for unicode, bytes otherwise.        *)
(***************************************************************************)
EXTENDS Integers, Sequences, FiniteSets, TLC

VARIABLES
    hs,        \* hasher instance -> [st, cls, m]: lifecycle, class, self._m
    heap,      \* address -> native accumulator, or Free
    news,      \* hasher instance -> number of `new CCMetroHash*` that succeeded
    dels,      \* hasher instance -> number of `del self._m` executed
    exports,   \* caller buffer object -> views acquired and not released
    tmplive,   \* temporaries (encoded text) that outlived their call
    crashed,   \* the process was terminated by an uncaught C++ exception
    out,       \* what the last completed call returned or raised
    g,         \* history: per instance, the seed and the bytes callers gave since
               \* the last construct/initialize, the intdigest calls since, and how
               \* the epoch began ("reset": an initialize that discarded bytes)
    tpc,       \* thread -> where it is in a one-shot call, and what it called with
    frame      \* call frame -> the locals of a one-shot call (seed, buf, result)

vars == <<hs, heap, news, dels, exports, tmplive, crashed, out, g, tpc, frame>>

-----------------------------------------------------------------------------
(* Bounds of the model *)

\* most bytes one accumulator is given between two resets
MaxAcc == 3
\* most intdigest calls on one accumulator between two resets
MaxFin == 1
\* most unreleased views the model lets pile up on one caller object
MaxExports == 1

-----------------------------------------------------------------------------
(* Sequences of bytes and Python integers *)

RECURSIVE Flatten(_)
Flatten(ss) == IF ss = <<>> THEN <<>> ELSE Head(ss) \o Flatten(Tail(ss))

\* Strip the high zero limbs: the canonical form of a Python integer.
RECURSIVE Norm(_)
Norm(a) == IF a = <<>> \/ a[Len(a)] /= 0 THEN a ELSE Norm(SubSeq(a, 1, Len(a) - 1))

Limb(a, i) == IF i >= 1 /\ i <= Len(a) THEN a[i] ELSE 0

\* limbs i.. of a + b, with carry c coming in
RECURSIVE AddFrom(_, _, _, _)
AddFrom(a, b, i, c) ==
    IF i > Len(a) /\ i > Len(b)
    THEN (IF c = 0 THEN <<>> ELSE <<c>>)
    ELSE <<(Limb(a, i) + Limb(b, i) + c) % 256>>
         \o AddFrom(a, b, i + 1, (Limb(a, i) + Limb(b, i) + c) \div 256)

\* a + b on limb sequences (the operands are bound first, so that each is
\* evaluated once)
PyLong_Add(a, b) ==
    CHOOSE r \in {Norm(AddFrom(x, y, 1, 0)) : x \in {a}, y \in {b}} : TRUE

\* limbs i.. of a * d for one limb d, with carry c coming in
RECURSIVE MulLimbFrom(_, _, _, _)
MulLimbFrom(a, d, i, c) ==
    IF i > Len(a)
    THEN (IF c = 0 THEN <<>> ELSE <<c>>)
    ELSE <<(a[i] * d + c) % 256>> \o MulLimbFrom(a, d, i + 1, (a[i] * d + c) \div 256)

\* a * 256^k
ShiftLimbs(a, k) == IF a = <<>> THEN <<>> ELSE [i \in 1..k |-> 0] \o a

\* a[j..] * 256^(j-1) * b (schoolbook over the limbs of a; a zero limb adds
\* nothing)
RECURSIVE MulFrom(_, _, _)
MulFrom(a, b, j) ==
    IF j > Len(a) THEN <<>>
    ELSE IF a[j] = 0 THEN MulFrom(a, b, j + 1)
    ELSE PyLong_Add(ShiftLimbs(Norm(MulLimbFrom(b, a[j], 1, 0)), j - 1),
                    MulFrom(a, b, j + 1))

\* a * b on limb sequences
PyLong_Mul(a, b) ==
    CHOOSE r \in {MulFrom(x, y, 1) : x \in {Norm(a)}, y \in {Norm(b)}} : TRUE

\* long(x) for a uint64 x, and the conversion of a returned uint64
PyLong_FromUint64(w) == Norm(w)

\* the literal 0x10000000000000000L
Lit_0x10000000000000000 == <<0, 0, 0, 0, 0, 0, 0, 0, 1>>

-----------------------------------------------------------------------------
(* The native primitive (metro.h).  Only its declarations are in the       *)
(* wrapper; its mixing arithmetic is outside it.  An accumulator is        *)
(* [seed, hist]: the seed of its last Initialize and the bytes it was      *)
(* given since, cut into the runs between Finalize calls.  The digest is   *)
(* a fixed function of (seed, hist), so that two accumulators agree        *)
(* exactly when they were driven alike since their last Initialize.        *)

RECURSIVE MixBytes(_, _)
MixBytes(h, bs) ==
    IF bs = <<>> THEN h ELSE MixBytes((h * 257 + Head(bs) + 1) % 8191, Tail(bs))

RECURSIVE MixRuns(_, _)
MixRuns(h, runs) ==
    IF Len(runs) = 1 THEN MixBytes(h, runs[1])
    ELSE MixRuns((MixBytes(h, Head(runs)) * 257 + 258) % 8191, Tail(runs))

\* one 64-bit output word, as 8 bytes
Word(h, salt) == [i \in 1..8 |-> (h * (2 * i + salt) + i * salt) % 256]

CCMetroHash64_Initialize(m, seed) == [seed |-> seed, hist |-> << <<>> >>]

CCMetroHash64_new(seed) == CCMetroHash64_Initialize([seed |-> 0, hist |-> << <<>> >>], seed)

CCMetroHash64_Update(m, buf, length) ==
    [m EXCEPT !.hist[Len(m.hist)] = @ \o SubSeq(buf, 1, length)]

\* Finalize(result): the 8 bytes written to result, and the accumulator after
CCMetroHash64_Finalize(m) ==
    [result |-> Word(MixRuns((m.seed * 31 + 64) % 8191, m.hist), 1),
     m      |-> [m EXCEPT !.hist = Append(@, <<>>)]]

CCMetroHash128_Initialize(m, seed) == [seed |-> seed, hist |-> << <<>> >>]

CCMetroHash128_new(seed) == CCMetroHash128_Initialize([seed |-> 0, hist |-> << <<>> >>], seed)

CCMetroHash128_Update(m, buf, length) ==
    [m EXCEPT !.hist[Len(m.hist)] = @ \o SubSeq(buf, 1, length)]

\* Finalize(result): the 16 bytes written to result, and the accumulator after
CCMetroHash128_Finalize(m) ==
    [result |-> Word(MixRuns((m.seed * 31 + 128) % 8191, m.hist), 2)
                \o Word(MixRuns((m.seed * 31 + 128) % 8191, m.hist), 3),
     m      |-> [m EXCEPT !.hist = Append(@, <<>>)]]

c_bytes2int64(array) == SubSeq(array, 1, 8)

c_bytes2int128(array) == [first |-> SubSeq(array, 1, 8), second |-> SubSeq(array, 9, 16)]

\* metrohash64(buf, len, seed) of metro.h: a transient accumulator, fed once
c_metrohash64(buf, length, seed) ==
    c_bytes2int64(
        CCMetroHash64_Finalize(
            CCMetroHash64_Update(CCMetroHash64_new(seed), buf, length)).result)

c_metrohash128(buf, length, seed) ==
    c_bytes2int128(
        CCMetroHash128_Finalize(
            CCMetroHash128_Update(CCMetroHash128_new(seed), buf, length)).result)

-----------------------------------------------------------------------------
(* The CPython calls the wrapper makes on its argument *)

PyUnicode_Check(data) == data.type = "unicode"

PyString_Check(data) == data.type = "bytes"

\* byte strings expose the buffer interface too
PyObject_CheckBuffer(data) == data.type \in {"bytes", "bytearray"}

IsSurrogate(c) == c >= 55296 /\ c <= 57343

\* UTF-8 of one code point
EncodeCp(c) ==
    IF c < 128 THEN <<c>>
    ELSE IF c < 2048 THEN <<192 + (c \div 64), 128 + (c % 64)>>
    ELSE IF c < 65536
         THEN <<224 + (c \div 4096), 128 + ((c \div 64) % 64), 128 + (c % 64)>>
    ELSE <<240 + (c \div 262144), 128 + ((c \div 4096) % 64),
           128 + ((c \div 64) % 64), 128 + (c % 64)>>

\* PyUnicode_AsUTF8String: a new byte string, or UnicodeEncodeError on a
\* lone surrogate
PyUnicode_AsUTF8String(data) ==
    IF \E i \in 1..Len(data.val) : IsSurrogate(data.val[i])
    THEN [ok |-> FALSE, obj |-> [type |-> "bytes", val |-> <<>>]]
    ELSE [ok |-> TRUE,
          obj |-> [type |-> "bytes",
                   val  |-> Flatten([i \in 1..Len(data.val) |-> EncodeCp(data.val[i])])]]

\* PyObject_GetBuffer(obj, &buf, PyBUF_SIMPLE): the view (buf.buf, buf.len)
PyObject_GetBuffer(obj) == [buf |-> obj.val, len |-> Len(obj.val)]

PyString_AS_STRING(data) == data.val

PyString_GET_SIZE(data) == Len(data.val)

\* `uint64 seed=0ULL`: the seed argument, <<>> when the caller omits it
SeedArg(a) == IF a = <<>> THEN 0 ELSE a[1]

-----------------------------------------------------------------------------
(* The wrapper's functions.  A call yields                                 *)
(*   raised : "none", or the exception the call ends with                  *)
(*   val    : the Python integer returned (<<>> when there is none)        *)
(*   held   : views taken on `data` with PyObject_GetBuffer and still      *)
(*            unreleased when the call returns                             *)
(*   tmprc  : reference count of the encoded temporary when the call has   *)
(*            returned (0: it was freed, and its view with it)             *)

_type_error(argname, expected, value) == "TypeError"

\* A faulty metrohash64: the text branch passes the number of code points as
\* the length, not the length of the encoded bytes.
metrohash64_CodePointLength(data, seed) ==
    IF PyUnicode_Check(data) THEN
        LET e == PyUnicode_AsUTF8String(data) IN
        IF ~e.ok
        THEN [raised |-> "UnicodeEncodeError", val |-> <<>>, held |-> 0, tmprc |-> 0]
        ELSE LET buf    == PyObject_GetBuffer(e.obj)
                 result == c_metrohash64(buf.buf, Len(data.val), seed)
             IN  [raised |-> "none", val |-> PyLong_FromUint64(result),
                  held |-> 0, tmprc |-> 1 + 1 - 1 - 1]
    ELSE IF PyString_Check(data) THEN
        LET result == c_metrohash64(PyString_AS_STRING(data),
                                    PyString_GET_SIZE(data), seed)
        IN  [raised |-> "none", val |-> PyLong_FromUint64(result),
             held |-> 0, tmprc |-> 0]
    ELSE IF PyObject_CheckBuffer(data) THEN
        LET buf    == PyObject_GetBuffer(data)
            result == c_metrohash64(buf.buf, buf.len, seed)
        IN  [raised |-> "none", val |-> PyLong_FromUint64(result),
             held |-> 1, tmprc |-> 0]
    ELSE [raised |-> _type_error("data", <<"basestring", "buffer">>, data),
          val |-> <<>>, held |-> 0, tmprc |-> 0]

\* cpdef metrohash64(data, uint64 seed=0ULL)
metrohash64(data, seed) ==
    IF PyUnicode_Check(data) THEN
        LET e == PyUnicode_AsUTF8String(data) IN
        IF ~e.ok
        THEN [raised |-> "UnicodeEncodeError", val |-> <<>>, held |-> 0, tmprc |-> 0]
        ELSE LET buf    == PyObject_GetBuffer(e.obj)
                 result == c_metrohash64(buf.buf, buf.len, seed)
             \* obj: 1 (new) + 1 (GetBuffer) - 1 (Py_DECREF) - 1 (local dropped)
             IN  [raised |-> "none", val |-> PyLong_FromUint64(result),
                  held |-> 0, tmprc |-> 1 + 1 - 1 - 1]
    ELSE IF PyString_Check(data) THEN
        LET result == c_metrohash64(PyString_AS_STRING(data),
                                    PyString_GET_SIZE(data), seed)
        IN  [raised |-> "none", val |-> PyLong_FromUint64(result),
             held |-> 0, tmprc |-> 0]
    ELSE IF PyObject_CheckBuffer(data) THEN
        LET buf    == PyObject_GetBuffer(data)
            result == c_metrohash64(buf.buf, buf.len, seed)
        \* the view on data is never handed back
        IN  [raised |-> "none", val |-> PyLong_FromUint64(result),
             held |-> 1, tmprc |-> 0]
    ELSE [raised |-> _type_error("data", <<"basestring", "buffer">>, data),
          val |-> <<>>, held |-> 0, tmprc |-> 0]

\* cpdef metrohash128(data, uint64 seed=0ULL)
metrohash128(data, seed) ==
    IF PyUnicode_Check(data) THEN
        LET e == PyUnicode_AsUTF8String(data) IN
        IF ~e.ok
        THEN [raised |-> "UnicodeEncodeError", val |-> <<>>, held |-> 0, tmprc |-> 0]
        ELSE LET buf    == PyObject_GetBuffer(e.obj)
                 result == c_metrohash128(buf.buf, buf.len, seed)
                 final  == PyLong_Add(
                               PyLong_Mul(Lit_0x10000000000000000,
                                          PyLong_FromUint64(result.first)),
                               PyLong_FromUint64(result.second))
             IN  [raised |-> "none", val |-> final, held |-> 0, tmprc |-> 1 + 1 - 1 - 1]
    ELSE IF PyString_Check(data) THEN
        LET result == c_metrohash128(PyString_AS_STRING(data),
                                     PyString_GET_SIZE(data), seed)
            final  == PyLong_Add(
                          PyLong_Mul(Lit_0x10000000000000000,
                                     PyLong_FromUint64(result.first)),
                          PyLong_FromUint64(result.second))
        IN  [raised |-> "none", val |-> final, held |-> 0, tmprc |-> 0]
    ELSE IF PyObject_CheckBuffer(data) THEN
        LET buf    == PyObject_GetBuffer(data)
            result == c_metrohash128(buf.buf, buf.len, seed)
            final  == PyLong_Add(
                          PyLong_Mul(Lit_0x10000000000000000,
                                     PyLong_FromUint64(result.first)),
                          PyLong_FromUint64(result.second))
        IN  [raised |-> "none", val |-> final, held |-> 1, tmprc |-> 0]
    ELSE [raised |-> _type_error("data", <<"basestring", "buffer">>, data),
          val |-> <<>>, held |-> 0, tmprc |-> 0]

-----------------------------------------------------------------------------
(* cdef class MetroHash64.  `m` is the accumulator self._m points to.      *)

\* A faulty initialize: the seed argument is dropped and 0 is used.
MetroHash64_initialize_SeedDropped(m, seed) == CCMetroHash64_Initialize(m, 0)

\* MetroHash64.initialize(self, uint64 seed=0ULL)
MetroHash64_initialize(m, seed) == CCMetroHash64_Initialize(m, seed)

\* A faulty update: the byte-string branch feeds one byte too few.
MetroHash64_update_ShortLength(m, data) ==
    IF PyUnicode_Check(data) THEN
        LET e == PyUnicode_AsUTF8String(data) IN
        IF ~e.ok
        THEN [raised |-> "UnicodeEncodeError", m |-> m, held |-> 0, tmprc |-> 0]
        ELSE LET buf == PyObject_GetBuffer(e.obj)
             IN  [raised |-> "none",
                  m |-> CCMetroHash64_Update(m, buf.buf, buf.len),
                  held |-> 0, tmprc |-> 1 + 1 - 1 - 1]
    ELSE IF PyString_Check(data) THEN
        [raised |-> "none",
         m |-> CCMetroHash64_Update(m, PyString_AS_STRING(data),
                                    PyString_GET_SIZE(data) - 1),
         held |-> 0, tmprc |-> 0]
    ELSE IF PyObject_CheckBuffer(data) THEN
        LET buf == PyObject_GetBuffer(data)
        IN  [raised |-> "none",
             m |-> CCMetroHash64_Update(m, buf.buf, buf.len),
             held |-> 1, tmprc |-> 0]
    ELSE [raised |-> _type_error("data", <<"basestring", "buffer">>, data),
          m |-> m, held |-> 0, tmprc |-> 0]

\* MetroHash64.update(self, data): the outcome and the accumulator after
MetroHash64_update(m, data) ==
    IF PyUnicode_Check(data) THEN
        LET e == PyUnicode_AsUTF8String(data) IN
        IF ~e.ok
        THEN [raised |-> "UnicodeEncodeError", m |-> m, held |-> 0, tmprc |-> 0]
        ELSE LET buf == PyObject_GetBuffer(e.obj)
             \* Py_DECREF(obj) comes before Update; the local still holds obj
             IN  [raised |-> "none",
                  m |-> CCMetroHash64_Update(m, buf.buf, buf.len),
                  held |-> 0, tmprc |-> 1 + 1 - 1 - 1]
    ELSE IF PyString_Check(data) THEN
        [raised |-> "none",
         m |-> CCMetroHash64_Update(m, PyString_AS_STRING(data), PyString_GET_SIZE(data)),
         held |-> 0, tmprc |-> 0]
    ELSE IF PyObject_CheckBuffer(data) THEN
        LET buf == PyObject_GetBuffer(data)
        IN  [raised |-> "none",
             m |-> CCMetroHash64_Update(m, buf.buf, buf.len),
             held |-> 1, tmprc |-> 0]
    ELSE [raised |-> _type_error("data", <<"basestring", "buffer">>, data),
          m |-> m, held |-> 0, tmprc |-> 0]

\* A faulty intdigest: the accumulator is re-initialized once it was read.
MetroHash64_intdigest_Resetting(m) ==
    LET f == CCMetroHash64_Finalize(m)
    IN  [val |-> PyLong_FromUint64(c_bytes2int64(f.result)),
         m   |-> CCMetroHash64_Initialize(f.m, m.seed)]

\* MetroHash64.intdigest(self): the integer returned and the accumulator after
MetroHash64_intdigest(m) ==
    LET f == CCMetroHash64_Finalize(m)
    IN  [val |-> PyLong_FromUint64(c_bytes2int64(f.result)), m |-> f.m]

-----------------------------------------------------------------------------
(* cdef class MetroHash128 *)

\* MetroHash128.initialize(self, uint64 seed=0ULL)
MetroHash128_initialize(m, seed) == CCMetroHash128_Initialize(m, seed)

\* A faulty update: a value of no supported type is taken for no bytes at all.
MetroHash128_update_Lenient(m, data) ==
    IF PyUnicode_Check(data) THEN
        LET e == PyUnicode_AsUTF8String(data) IN
        IF ~e.ok
        THEN [raised |-> "UnicodeEncodeError", m |-> m, held |-> 0, tmprc |-> 0]
        ELSE LET buf == PyObject_GetBuffer(e.obj)
             IN  [raised |-> "none",
                  m |-> CCMetroHash128_Update(m, buf.buf, buf.len),
                  held |-> 0, tmprc |-> 1 + 1 - 1 - 1]
    ELSE IF PyString_Check(data) THEN
        [raised |-> "none",
         m |-> CCMetroHash128_Update(m, PyString_AS_STRING(data), PyString_GET_SIZE(data)),
         held |-> 0, tmprc |-> 0]
    ELSE IF PyObject_CheckBuffer(data) THEN
        LET buf == PyObject_GetBuffer(data)
        IN  [raised |-> "none",
             m |-> CCMetroHash128_Update(m, buf.buf, buf.len),
             held |-> 1, tmprc |-> 0]
    ELSE [raised |-> "none", m |-> m, held |-> 0, tmprc |-> 0]

\* MetroHash128.update(self, data)
MetroHash128_update(m, data) ==
    IF PyUnicode_Check(data) THEN
        LET e == PyUnicode_AsUTF8String(data) IN
        IF ~e.ok
        THEN [raised |-> "UnicodeEncodeError", m |-> m, held |-> 0, tmprc |-> 0]
        ELSE LET buf == PyObject_GetBuffer(e.obj)
             IN  [raised |-> "none",
                  m |-> CCMetroHash128_Update(m, buf.buf, buf.len),
                  held |-> 0, tmprc |-> 1 + 1 - 1 - 1]
    ELSE IF PyString_Check(data) THEN
        [raised |-> "none",
         m |-> CCMetroHash128_Update(m, PyString_AS_STRING(data), PyString_GET_SIZE(data)),
         held |-> 0, tmprc |-> 0]
    ELSE IF PyObject_CheckBuffer(data) THEN
        LET buf == PyObject_GetBuffer(data)
        IN  [raised |-> "none",
             m |-> CCMetroHash128_Update(m, buf.buf, buf.len),
             held |-> 1, tmprc |-> 0]
    ELSE [raised |-> _type_error("data", <<"basestring", "buffer">>, data),
          m |-> m, held |-> 0, tmprc |-> 0]

\* A faulty intdigest: the two words are composed in the other order.
MetroHash128_intdigest_Swapped(m) ==
    LET f      == CCMetroHash128_Finalize(m)
        result == c_bytes2int128(f.result)
    IN  [val |-> PyLong_Add(
                     PyLong_Mul(Lit_0x10000000000000000,
                                PyLong_FromUint64(result.second)),
                     PyLong_FromUint64(result.first)),
         m   |-> f.m]

\* MetroHash128.intdigest(self)
MetroHash128_intdigest(m) ==
    LET f      == CCMetroHash128_Finalize(m)
        result == c_bytes2int128(f.result)
    IN  [val |-> PyLong_Add(
                     PyLong_Mul(Lit_0x10000000000000000,
                                PyLong_FromUint64(result.first)),
                     PyLong_FromUint64(result.second)),
         m   |-> f.m]

-----------------------------------------------------------------------------
(* Construction and destruction.  self._m is an address of the native     *)
(* heap or "NULL"; a heap cell is <<>> when free and <<m>> when it holds   *)
(* the accumulator m.                                                      *)

Hashers == {"h1", "h2"}

Addrs == {"a1", "a2"}

\* A faulty `new`: every instance is given the same cell.
operator_new_Static(hp) == "a1"

\* `new`: a cell nobody holds
operator_new(hp) == CHOOSE a \in Addrs : hp[a] = <<>>

\* MetroHash64.__cinit__(self, uint64 seed=0ULL); alloc tells whether `new`
\* gave a cell ("ok") or NULL ("null")
MetroHash64_cinit(hp, seed, alloc) ==
    IF alloc = "ok"
    THEN LET a == operator_new(hp)
         IN  [m |-> a, heap |-> [hp EXCEPT ![a] = <<CCMetroHash64_new(seed)>>],
              raised |-> "none"]
    ELSE [m |-> "NULL", heap |-> hp, raised |-> "MemoryError"]

\* A faulty __dealloc__: the pointer is cleared and the accumulator never deleted.
MetroHash64_dealloc_Leaking(self_m, hp) ==
    [m |-> "NULL", heap |-> hp, deleted |-> 0]

\* MetroHash64.__dealloc__(self)
MetroHash64_dealloc(self_m, hp) ==
    IF self_m /= "NULL"
    THEN [m |-> "NULL", heap |-> [hp EXCEPT ![self_m] = <<>>], deleted |-> 1]
    ELSE [m |-> self_m, heap |-> hp, deleted |-> 0]

\* MetroHash128.__cinit__(self, uint64 seed=0ULL)
MetroHash128_cinit(hp, seed, alloc) ==
    IF alloc = "ok"
    THEN LET a == operator_new(hp)
         IN  [m |-> a, heap |-> [hp EXCEPT ![a] = <<CCMetroHash128_new(seed)>>],
              raised |-> "none"]
    ELSE [m |-> "NULL", heap |-> hp, raised |-> "MemoryError"]

\* MetroHash128.__dealloc__(self)
MetroHash128_dealloc(self_m, hp) ==
    IF self_m /= "NULL"
    THEN [m |-> "NULL", heap |-> [hp EXCEPT ![self_m] = <<>>], deleted |-> 1]
    ELSE [m |-> self_m, heap |-> hp, deleted |-> 0]

-----------------------------------------------------------------------------
(* The values callers pass *)

Classes == {"64", "128"}

\* seed arguments: omitted, or given
SeedArgs == {<<>>, <<1>>}

U_Eac   == [type |-> "unicode",   val |-> <<233>>]
U_Surr  == [type |-> "unicode",   val |-> <<55296>>]
B_Empty == [type |-> "bytes",     val |-> <<>>]
B_A     == [type |-> "bytes",     val |-> <<65>>]
BA_A    == [type |-> "bytearray", val |-> <<65>>]
O_None  == [type |-> "NoneType",  val |-> <<>>]

Inputs == {U_Eac, U_Surr, B_Empty, B_A, BA_A, O_None}

BufferObjs == {d \in Inputs : d.type = "bytearray"}

Supported == {"unicode", "bytes", "bytearray"}

NoData == [type |-> "none", val |-> <<>>]

\* The published UTF-8 encodings of the texts above
KnownUTF8(cps) ==
    CASE cps = <<233>>  -> <<195, 169>>
      [] OTHER          -> <<>>

HasUTF8(d) == d.type = "unicode" /\ d.val \in {<<233>>}

\* The bytes a caller means by a value
RefBytes(d) == IF d.type = "unicode" THEN KnownUTF8(d.val) ELSE d.val

AsBytes(bs) == [type |-> "bytes", val |-> bs]

\* the numeric seeds the seed arguments stand for
SeedVals == {SeedArg(a) : a \in SeedArgs}

\* the values callers pass, and for each the byte string of its bytes
Callable == Inputs \cup {AsBytes(RefBytes(d)) : d \in Inputs}

\* metrohash64 and metrohash128 tabulated over these values
metrohash64_of == [d \in Callable, s \in SeedVals |-> metrohash64(d, s)]

metrohash128_of == [d \in Callable, s \in SeedVals |-> metrohash128(d, s)]

-----------------------------------------------------------------------------
(* State *)

Threads == {"t1", "t2"}

NoFrame == [fn |-> "none", seed |-> 0, buf |-> <<>>, len |-> 0, tmprc |-> 0,
            words |-> <<>>]

NoCall == [op |-> "none", h |-> "none", data |-> NoData, seed |-> <<>>,
           raised |-> "none", val |-> <<>>, pair |-> <<>>]

Init ==
    /\ hs = [h \in Hashers |-> [st |-> "unborn", cls |-> "none", m |-> "NULL"]]
    /\ heap = [a \in Addrs |-> <<>>]
    /\ news = [h \in Hashers |-> 0]
    /\ dels = [h \in Hashers |-> 0]
    /\ exports = [d \in BufferObjs |-> 0]
    /\ tmplive = 0
    /\ crashed = FALSE
    /\ out = NoCall
    /\ g = [h \in Hashers |-> [seed |-> 0, bytes |-> <<>>, fins |-> 0, via |-> "none"]]
    /\ tpc = [t \in Threads |->
                 [at |-> "idle", fn |-> "none", data |-> NoData, sa |-> <<>>]]
    /\ frame = [t \in Threads |-> NoFrame]

Acc(h) == heap[hs[h].m][1]

Hold(d, n) == IF d \in BufferObjs THEN [exports EXCEPT ![d] = @ + n] ELSE exports

CanPass(d) == d \in BufferObjs => exports[d] < MaxExports

Leftover(rc) == IF rc > 0 THEN 1 ELSE 0

-----------------------------------------------------------------------------
(* Calls on a hasher instance *)

\* MetroHashNN(seed): `new` gives a cell, __cinit__ stores it
Construct(h, cls, sa) ==
    /\ ~crashed
    /\ hs[h].st = "unborn"
    /\ \E a \in Addrs : heap[a] = <<>>
    /\ LET r == IF cls = "64" THEN MetroHash64_cinit(heap, SeedArg(sa), "ok")
                ELSE MetroHash128_cinit(heap, SeedArg(sa), "ok")
       IN  /\ hs' = [hs EXCEPT ![h] = [st |-> "live", cls |-> cls, m |-> r.m]]
           /\ heap' = r.heap
           /\ news' = [news EXCEPT ![h] = @ + 1]
           /\ out' = [NoCall EXCEPT !.op = "construct", !.h = h, !.seed = sa,
                                    !.raised = r.raised]
    /\ g' = [g EXCEPT ![h] = [seed |-> IF sa = <<>> THEN 0 ELSE sa[1],
                              bytes |-> <<>>, fins |-> 0, via |-> "construct"]]
    /\ UNCHANGED <<dels, exports, tmplive, crashed, tpc, frame>>

\* MetroHashNN(seed) when `new` yields NULL: __cinit__ raises MemoryError and
\* the runtime deallocates the object that was never handed out
ConstructNull(h, cls, sa) ==
    /\ ~crashed
    /\ hs[h].st = "unborn"
    /\ LET r == IF cls = "64" THEN MetroHash64_cinit(heap, SeedArg(sa), "null")
                ELSE MetroHash128_cinit(heap, SeedArg(sa), "null")
           d == IF cls = "64" THEN MetroHash64_dealloc(r.m, r.heap)
                ELSE MetroHash128_dealloc(r.m, r.heap)
       IN  /\ hs' = [hs EXCEPT ![h] = [st |-> "failed", cls |-> cls, m |-> d.m]]
           /\ heap' = d.heap
           /\ dels' = [dels EXCEPT ![h] = @ + d.deleted]
           /\ out' = [NoCall EXCEPT !.op = "construct", !.h = h, !.seed = sa,
                                    !.raised = r.raised]
    /\ UNCHANGED <<news, exports, tmplive, crashed, g, tpc, frame>>

\* MetroHashNN(seed) when `new` throws std::bad_alloc: the constructor is
\* declared without an exception clause, so nothing catches it
ConstructThrow(h, cls, sa) ==
    /\ ~crashed
    /\ hs[h].st = "unborn"
    /\ crashed' = TRUE
    /\ out' = [NoCall EXCEPT !.op = "construct", !.h = h, !.seed = sa,
                             !.raised = "terminate"]
    /\ UNCHANGED <<hs, heap, news, dels, exports, tmplive, g, tpc, frame>>

\* h.initialize(seed)
Initialize(h, sa) ==
    /\ ~crashed
    /\ hs[h].st = "live"
    /\ heap' = [heap EXCEPT ![hs[h].m] =
                   <<IF hs[h].cls = "64"
                     THEN MetroHash64_initialize(Acc(h), SeedArg(sa))
                     ELSE MetroHash128_initialize(Acc(h), SeedArg(sa))>>]
    /\ out' = [NoCall EXCEPT !.op = "initialize", !.h = h, !.seed = sa]
    /\ g' = [g EXCEPT ![h] = [seed |-> IF sa = <<>> THEN 0 ELSE sa[1],
                              bytes |-> <<>>, fins |-> 0,
                              via |-> IF g[h].bytes = <<>> THEN "initialize"
                                      ELSE "reset"]]
    /\ UNCHANGED <<hs, news, dels, exports, tmplive, crashed, tpc, frame>>

\* h.update(data)
Update(h, d) ==
    /\ ~crashed
    /\ hs[h].st = "live"
    /\ CanPass(d)
    /\ Len(g[h].bytes) + Len(RefBytes(d)) <= MaxAcc
    /\ LET r == IF hs[h].cls = "64" THEN MetroHash64_update(Acc(h), d)
                ELSE MetroHash128_update(Acc(h), d)
       IN  /\ heap' = [heap EXCEPT ![hs[h].m] = <<r.m>>]
           /\ exports' = Hold(d, r.held)
           /\ tmplive' = tmplive + Leftover(r.tmprc)
           /\ out' = [NoCall EXCEPT !.op = "update", !.h = h, !.data = d,
                                    !.raised = r.raised]
           /\ g' = IF r.raised = "none"
                   THEN [g EXCEPT ![h].bytes = @ \o RefBytes(d)]
                   ELSE g
    /\ UNCHANGED <<hs, news, dels, crashed, tpc, frame>>

\* h.intdigest()
IntDigest(h) ==
    /\ ~crashed
    /\ hs[h].st = "live"
    /\ g[h].fins < MaxFin
    /\ LET r == IF hs[h].cls = "64" THEN MetroHash64_intdigest(Acc(h))
                ELSE MetroHash128_intdigest(Acc(h))
           w == IF hs[h].cls = "64" THEN <<>>
                ELSE LET p == c_bytes2int128(CCMetroHash128_Finalize(Acc(h)).result)
                     IN  <<p.first, p.second>>
       IN  /\ heap' = [heap EXCEPT ![hs[h].m] = <<r.m>>]
           /\ out' = [NoCall EXCEPT !.op = "intdigest", !.h = h, !.val = r.val,
                                    !.pair = w]
    /\ g' = [g EXCEPT ![h].fins = @ + 1]
    /\ UNCHANGED <<hs, news, dels, exports, tmplive, crashed, tpc, frame>>

\* the last reference to h goes away: __dealloc__
Dealloc(h) ==
    /\ ~crashed
    /\ hs[h].st = "live"
    /\ LET d == IF hs[h].cls = "64" THEN MetroHash64_dealloc(hs[h].m, heap)
                ELSE MetroHash128_dealloc(hs[h].m, heap)
       IN  /\ hs' = [hs EXCEPT ![h].st = "dead", ![h].m = d.m]
           /\ heap' = d.heap
           /\ dels' = [dels EXCEPT ![h] = @ + d.deleted]
    /\ out' = [NoCall EXCEPT !.op = "dealloc", !.h = h]
    /\ UNCHANGED <<news, exports, tmplive, crashed, g, tpc, frame>>

-----------------------------------------------------------------------------
(* One-shot calls, run from start to end *)

\* metrohash64(data, seed)
Hash64(d, sa) ==
    /\ ~crashed
    /\ CanPass(d)
    /\ LET r == metrohash64_of[d, SeedArg(sa)]
       IN  /\ exports' = Hold(d, r.held)
           /\ tmplive' = tmplive + Leftover(r.tmprc)
           /\ out' = [NoCall EXCEPT !.op = "metrohash64", !.data = d, !.seed = sa,
                                    !.raised = r.raised, !.val = r.val]
    /\ UNCHANGED <<hs, heap, news, dels, crashed, g, tpc, frame>>

\* metrohash128(data, seed)
Hash128(d, sa) ==
    /\ ~crashed
    /\ CanPass(d)
    /\ LET r == metrohash128_of[d, SeedArg(sa)]
           w == IF d.type \in Supported /\ r.raised = "none"
                THEN LET p == c_metrohash128(RefBytes(d), Len(RefBytes(d)), SeedArg(sa))
                     IN  <<p.first, p.second>>
                ELSE <<>>
       IN  /\ exports' = Hold(d, r.held)
           /\ tmplive' = tmplive + Leftover(r.tmprc)
           /\ out' = [NoCall EXCEPT !.op = "metrohash128", !.data = d, !.seed = sa,
                                    !.raised = r.raised, !.val = r.val, !.pair = w]
    /\ UNCHANGED <<hs, heap, news, dels, crashed, g, tpc, frame>>

-----------------------------------------------------------------------------
(* One-shot calls taken a step at a time, for calls that overlap.  buf,    *)
(* obj and result are locals of the function: each call has its own.       *)

\* Faulty locals: one static set that every call shares.
FrameOf_Static(t) == "t1"

\* the locals of the call thread t is in
FrameOf(t) == t

Idle == [at |-> "idle", fn |-> "none", data |-> NoData, sa |-> <<>>]

\* up to the point where the bytes to hash are known (type dispatch, encoding,
\* PyObject_GetBuffer), or to the raise
OsEnter(t, fn, d, sa) ==
    /\ ~crashed
    /\ tpc[t].at = "idle"
    /\ CanPass(d)
    /\ IF PyUnicode_Check(d) THEN
           LET e == PyUnicode_AsUTF8String(d) IN
           IF ~e.ok
           THEN /\ out' = [NoCall EXCEPT !.op = fn, !.data = d, !.seed = sa,
                                         !.raised = "UnicodeEncodeError"]
                /\ UNCHANGED <<tpc, frame, exports>>
           ELSE LET buf == PyObject_GetBuffer(e.obj)
                IN  /\ frame' = [frame EXCEPT ![FrameOf(t)] =
                            [fn |-> fn, seed |-> SeedArg(sa), buf |-> buf.buf,
                             len |-> buf.len, tmprc |-> 1 + 1, words |-> <<>>]]
                    /\ tpc' = [tpc EXCEPT ![t] =
                            [at |-> "view", fn |-> fn, data |-> d, sa |-> sa]]
                    /\ UNCHANGED <<out, exports>>
       ELSE IF PyString_Check(d) THEN
           /\ frame' = [frame EXCEPT ![FrameOf(t)] =
                   [fn |-> fn, seed |-> SeedArg(sa), buf |-> PyString_AS_STRING(d),
                    len |-> PyString_GET_SIZE(d), tmprc |-> 0, words |-> <<>>]]
           /\ tpc' = [tpc EXCEPT ![t] = [at |-> "view", fn |-> fn, data |-> d, sa |-> sa]]
           /\ UNCHANGED <<out, exports>>
       ELSE IF PyObject_CheckBuffer(d) THEN
           LET buf == PyObject_GetBuffer(d)
           IN  /\ frame' = [frame EXCEPT ![FrameOf(t)] =
                       [fn |-> fn, seed |-> SeedArg(sa), buf |-> buf.buf,
                        len |-> buf.len, tmprc |-> 0, words |-> <<>>]]
               /\ tpc' = [tpc EXCEPT ![t] =
                       [at |-> "view", fn |-> fn, data |-> d, sa |-> sa]]
               /\ exports' = Hold(d, 1)
               /\ out' = out
       ELSE /\ out' = [NoCall EXCEPT !.op = fn, !.data = d, !.seed = sa,
                          !.raised = _type_error("data", <<"basestring", "buffer">>, d)]
            /\ UNCHANGED <<tpc, frame, exports>>
    /\ UNCHANGED <<hs, heap, news, dels, tmplive, crashed, g>>

\* the call into the primitive: result = c_metrohashNN(buf, len, seed)
OsHash(t) ==
    /\ ~crashed
    /\ tpc[t].at = "view"
    /\ LET f == frame[FrameOf(t)]
       IN  frame' = [frame EXCEPT ![FrameOf(t)].words =
                IF f.fn = "metrohash64"
                THEN <<c_metrohash64(f.buf, f.len, f.seed)>>
                ELSE LET p == c_metrohash128(f.buf, f.len, f.seed)
                     IN  <<p.first, p.second>>]
    /\ tpc' = [tpc EXCEPT ![t].at = "hashed"]
    /\ UNCHANGED <<hs, heap, news, dels, exports, tmplive, crashed, out, g>>

\* Py_DECREF of the temporary, the conversion of the result, the return
OsReturn(t) ==
    /\ ~crashed
    /\ tpc[t].at = "hashed"
    /\ LET f == frame[FrameOf(t)]
           v == IF f.fn = "metrohash64"
                THEN PyLong_FromUint64(f.words[1])
                ELSE PyLong_Add(
                         PyLong_Mul(Lit_0x10000000000000000,
                                    PyLong_FromUint64(f.words[1])),
                         PyLong_FromUint64(f.words[2]))
       IN  /\ out' = [NoCall EXCEPT !.op = tpc[t].fn, !.data = tpc[t].data,
                                    !.seed = tpc[t].sa, !.val = v]
           /\ tmplive' = tmplive + Leftover(IF f.tmprc > 0 THEN f.tmprc - 1 - 1 ELSE 0)
    /\ frame' = [frame EXCEPT ![FrameOf(t)] = NoFrame]
    /\ tpc' = [tpc EXCEPT ![t] = Idle]
    /\ UNCHANGED <<hs, heap, news, dels, exports, crashed, g>>

Next ==
    \/ \E h \in {"h1"}, cls \in Classes, sa \in SeedArgs : Construct(h, cls, sa)
    \/ \E h \in {"h1"}, cls \in Classes, sa \in SeedArgs : ConstructNull(h, cls, sa)
    \/ \E h \in {"h1"}, cls \in Classes, sa \in SeedArgs : ConstructThrow(h, cls, sa)
    \/ \E h \in {"h1"}, sa \in SeedArgs : Initialize(h, sa)
    \/ \E h \in {"h1"}, d \in Inputs : Update(h, d)
    \/ \E h \in {"h1"} : IntDigest(h)
    \/ \E h \in {"h1"} : Dealloc(h)
    \/ \E d \in Inputs, sa \in SeedArgs : Hash64(d, sa)
    \/ \E d \in Inputs, sa \in SeedArgs : Hash128(d, sa)

Spec == Init /\ [][Next]_vars

\* two instances side by side
NextTwo ==
    \/ \E h \in Hashers, cls \in Classes : Construct(h, cls, <<>>)
    \/ \E h \in Hashers : Update(h, B_A)
    \/ IntDigest("h1")
    \/ Initialize("h1", <<1>>)

SpecTwo == Init /\ [][NextTwo]_vars

\* one-shot calls of two threads overlapping each other and calls on an instance
OneShots == {"metrohash64", "metrohash128"}

NextConc ==
    \/ \E cls \in Classes : Construct("h1", cls, <<>>)
    \/ Update("h1", B_A)
    \/ IntDigest("h1")
    \/ \E t \in Threads, fn \in OneShots, d \in {U_Eac, B_A, O_None}, sa \in SeedArgs :
           OsEnter(t, fn, d, sa)
    \/ \E t \in Threads : OsHash(t)
    \/ \E t \in Threads : OsReturn(t)

SpecConc == Init /\ [][NextConc]_vars

-----------------------------------------------------------------------------
(* Properties *)

\* what the one-shot function of h's width returns for bytes bs and seed s
OneShotOf(h, bs, s) ==
    IF hs[h].cls = "64" THEN metrohash64(AsBytes(bs), s).val
    ELSE metrohash128(AsBytes(bs), s).val

\* what h.intdigest() would return for hasher table hv and heap hp
DigestIn(hv, hp, h) ==
    IF hv[h].cls = "64" THEN MetroHash64_intdigest(hp[hv[h].m][1]).val
    ELSE MetroHash128_intdigest(hp[hv[h].m][1]).val

\* C1: a hasher constructed with seed s and given update(b1), ..., update(bn)
\* returns from intdigest() what the one-shot function of the same width
\* returns for b1 + ... + bn and s, however the bytes were cut into chunks.
C1_ChunksEqualOneShot ==
    (out.op = "intdigest" /\ g[out.h].via = "construct" /\ g[out.h].fins = 1)
        => out.val = OneShotOf(out.h, g[out.h].bytes, g[out.h].seed)

\* C1 witness: a digest taken after a one-byte chunk and a two-byte chunk
C1_Witness ==
    /\ out.op = "intdigest"
    /\ g[out.h].via = "construct"
    /\ g[out.h].fins = 1
    /\ g[out.h].bytes = <<65, 195, 169>>
    /\ g[out.h].seed = 1

\* C2: initialize(seed) puts the accumulator in the state of a freshly
\* constructed one with that seed (0 when omitted), and the next intdigest()
\* equals the one-shot hash, under that seed, of the bytes given after it.
C2_ResetStartsAfresh ==
    /\ (out.op = "initialize" /\ hs[out.h].cls = "64")
           => Acc(out.h) = CCMetroHash64_new(g[out.h].seed)
    /\ (out.op = "initialize" /\ hs[out.h].cls = "128")
           => Acc(out.h) = CCMetroHash128_new(g[out.h].seed)
    /\ (out.op = "intdigest" /\ g[out.h].via \in {"initialize", "reset"}
                             /\ g[out.h].fins = 1)
           => out.val = OneShotOf(out.h, g[out.h].bytes, g[out.h].seed)

\* C2 witness: a digest after an initialize that discarded bytes, with new
\* bytes given since
C2_Witness ==
    /\ out.op = "intdigest"
    /\ g[out.h].via = "reset"
    /\ g[out.h].fins = 1
    /\ g[out.h].bytes /= <<>>

\* C5: the 128-bit result is high * 2^64 + low for the words (high, low) the
\* primitive emitted first and second, on the one-shot and on the incremental
\* path alike; it is below 2^128 and the words are its quotient and remainder
\* by 2^64.
C5_WideResult ==
    (out.pair /= <<>>) =>
        /\ out.val = Norm(out.pair[2] \o out.pair[1])
        /\ Len(out.val) <= 16
        /\ Norm(SubSeq(out.val, 9, Len(out.val))) = Norm(out.pair[1])
        /\ Norm(SubSeq(out.val, 1, IF Len(out.val) < 8 THEN Len(out.val) ELSE 8))
               = Norm(out.pair[2])

\* C5 witness: an incremental 128-bit digest whose two words differ and both
\* have their top bit set
C5_Witness ==
    /\ out.op = "intdigest"
    /\ out.pair /= <<>>
    /\ out.pair[1] /= out.pair[2]
    /\ out.pair[1][8] >= 128
    /\ out.pair[2][8] >= 128

\* C7: intdigest() neither resets nor discards: whatever intdigest calls lie
\* between the updates, the accumulator holds the seed it was given and the
\* bytes of the updates, in order.
C7_DigestKeepsState ==
    \A h \in Hashers :
        hs[h].st = "live" =>
            /\ Acc(h).seed = g[h].seed
            /\ Flatten(Acc(h).hist) = g[h].bytes
            /\ Len(Acc(h).hist) = g[h].fins + 1

\* C7 witness: update(b1); intdigest(); update(b2)
C7_Witness ==
    \E h \in Hashers :
        /\ hs[h].st = "live"
        /\ Len(Acc(h).hist) = 2
        /\ Acc(h).hist[1] /= <<>>
        /\ Acc(h).hist[2] /= <<>>

\* C8: every view taken on an input is released by the time the call
\* returns: no caller object has an outstanding view, no temporary survives.
C8_NoViewOutstanding ==
    /\ \A d \in BufferObjs : exports[d] = 0
    /\ tmplive = 0

\* C9: an instance owns one accumulator from construction to destruction:
\* allocated once, not replaced or freed by initialize/update/intdigest,
\* released exactly once at destruction; a failed construction is reported
\* and releases nothing.
C9_OneAccumulator ==
    /\ \A h \in Hashers :
        /\ hs[h].st = "unborn" => news[h] = 0 /\ dels[h] = 0 /\ hs[h].m = "NULL"
        /\ hs[h].st = "live" =>
               news[h] = 1 /\ dels[h] = 0 /\ hs[h].m \in Addrs /\ heap[hs[h].m] /= <<>>
        /\ hs[h].st = "dead" => news[h] = 1 /\ dels[h] = 1 /\ hs[h].m = "NULL"
        /\ hs[h].st = "failed" => news[h] = 0 /\ dels[h] = 0 /\ hs[h].m = "NULL"
    /\ Cardinality({a \in Addrs : heap[a] /= <<>>})
           = Cardinality({h \in Hashers : hs[h].st = "live"})
    /\ (out.op = "construct" /\ hs[out.h].st = "failed") => out.raised = "MemoryError"
    /\ out.op = "construct" => (out.raised = "none" <=> hs[out.h].st = "live")

\* C9 witness: an instance destroyed after updates and a digest
C9_Witness ==
    \E h \in Hashers :
        /\ hs[h].st = "dead"
        /\ g[h].bytes /= <<>>
        /\ g[h].fins > 0

\* C3: a value that is neither text, byte string nor buffer makes
\* metrohash64, metrohash128 and update raise the type error, and the failed
\* update leaves the accumulator, and the digest it would yield, as they were.
\* (out' tells which call the step was: every call leaves its outcome there.)
C3_UnsupportedRejected ==
    [][/\ (out'.op = "update" /\ out'.data.type \notin Supported) =>
              /\ out'.raised = "TypeError"
              /\ hs' = hs
              /\ heap' = heap
              /\ DigestIn(hs', heap', out'.h) = DigestIn(hs, heap, out'.h)
       /\ (out'.op \in OneShots /\ out'.data.type \notin Supported) =>
              (out'.raised = "TypeError" /\ out'.val = <<>>)
      ]_vars

\* C3 witness: update(None) raised on a hasher that already held bytes
C3_Witness ==
    /\ out.op = "update"
    /\ out.data = O_None
    /\ out.raised = "TypeError"
    /\ hs[out.h].st = "live"
    /\ g[out.h].bytes /= <<>>

\* C4: for a text t whose UTF-8 encoding is b, metrohash64(t, s) =
\* metrohash64(b, s), metrohash128(t, s) = metrohash128(b, s), and update(t)
\* leaves the accumulator as update(b) would.
C4_TextAsUTF8 ==
    [][HasUTF8(out'.data) =>
          LET b == AsBytes(KnownUTF8(out'.data.val)) IN
          /\ out'.op = "metrohash64" =>
                 /\ out'.raised = "none"
                 /\ out'.val = metrohash64_of[b, SeedArg(out'.seed)].val
          /\ out'.op = "metrohash128" =>
                 /\ out'.raised = "none"
                 /\ out'.val = metrohash128_of[b, SeedArg(out'.seed)].val
          /\ out'.op = "update" =>
                 /\ out'.raised = "none"
                 /\ heap'[hs'[out'.h].m][1] =
                        IF hs[out'.h].cls = "64"
                        THEN MetroHash64_update(Acc(out'.h), b).m
                        ELSE MetroHash128_update(Acc(out'.h), b).m
      ]_vars

\* C4 witness: update of a two-byte text after a byte-string chunk
C4_Witness ==
    /\ out.op = "update"
    /\ out.data = U_Eac
    /\ out.raised = "none"
    /\ g[out.h].bytes = <<65, 195, 169>>

\* C6: a one-shot call that overlaps other one-shot calls and calls on a
\* hasher returns what it returns when run alone for the same data and seed,
\* and none of its steps changes a hasher's accumulator.  (A step of a
\* one-shot call moves its thread or leaves a one-shot outcome in out; a call
\* on a hasher does neither.)
C6_OneShotIsolated ==
    [][/\ (tpc' /= tpc \/ out'.op \in OneShots) => (hs' = hs /\ heap' = heap)
       /\ out'.op = "metrohash64" =>
              /\ out'.raised = metrohash64_of[out'.data, SeedArg(out'.seed)].raised
              /\ out'.val = metrohash64_of[out'.data, SeedArg(out'.seed)].val
       /\ out'.op = "metrohash128" =>
              /\ out'.raised = metrohash128_of[out'.data, SeedArg(out'.seed)].raised
              /\ out'.val = metrohash128_of[out'.data, SeedArg(out'.seed)].val
      ]_vars

\* C6 witness: a call has returned while the other thread is inside a call on
\* other data and a hasher holds bytes
C6_Witness ==
    /\ out.op = "metrohash128"
    /\ out.raised = "none"
    /\ \E t \in Threads : tpc[t].at = "hashed" /\ tpc[t].data /= out.data
    /\ \E h \in Hashers : hs[h].st = "live" /\ g[h].bytes /= <<>>

\* a call on instance a
OpOn(a) ==
    \/ \E sa \in SeedArgs : Initialize(a, sa)
    \/ \E d \in Inputs : Update(a, d)
    \/ IntDigest(a)

\* C10: initialize, update and intdigest on one instance leave every other
\* instance's accumulator, and the digest it would yield, unchanged.
C10_OthersUntouched ==
    [][\A a \in Hashers, b \in Hashers :
          (a /= b /\ hs[b].st = "live" /\ OpOn(a)) =>
              /\ hs'[b] = hs[b]
              /\ heap'[hs'[b].m] = heap[hs[b].m]
              /\ DigestIn(hs', heap', b) = DigestIn(hs, heap, b)
      ]_vars

\* C10 witness: two live instances of different widths, each holding bytes,
\* one of them after a digest
C10_Witness ==
    /\ hs["h1"].st = "live"
    /\ hs["h2"].st = "live"
    /\ hs["h1"].cls /= hs["h2"].cls
    /\ g["h1"].bytes /= <<>>
    /\ g["h2"].bytes /= <<>>
    /\ g["h1"].bytes /= g["h2"].bytes
    /\ g["h1"].fins > 0

====
